---- MODULE Spec2Model ----
(***************************************************************************)
(* lbranch: list the most recently checked-out git branches, read from the *)
(* reflog, and optionally check one of them out (src/lbranch/main.py).     *)
(*                                                                         *)
(* One run of main() is modelled as a sequential process: every external   *)
(* git command, the prompt and the reflog scan loop are steps; the results *)
(* of the external commands and the user's input are chosen                *)
(* nondeterministically where the code obtains them.                       *)
(***************************************************************************)
EXTENDS Integers, Sequences, FiniteSets, TLC

VARIABLES
    pc,             \* position of main(): the next step to execute
    colors,         \* the globals RED, GREEN, BLUE, NC
    args,           \* parse_arguments(): number, select, no_color, force_color
    current_branch, \* main.py:130
    lines,          \* reflog_output.splitlines(), main.py:138
    idx,            \* 1-based position of the for loop of main.py:138
    branches,       \* main.py:137, truncated at main.py:165
    total_branches, \* main.py:159
    branch_limit,   \* main.py:164
    branch_num,     \* main.py:176, the line read from the prompt
    out,            \* everything printed: <<[stream, text], ...>>
    cmds,           \* argv of every external command run, in order
    failed_cmd,     \* argv of the command whose failure was observed, or <<>>
    outcome,        \* which exit of main() was taken
    exit_code       \* process exit status, -1 while running

vars == <<pc, colors, args, current_branch, lines, idx, branches,
          total_branches, branch_limit, branch_num, out, cmds, failed_cmd,
          outcome, exit_code>>

(***************************************************************************)
(* Bounds of the model.                                                    *)
(***************************************************************************)
MaxLines == 3       \* reflogs of 0..MaxLines lines
MaxNumber == 2      \* -n ranges over -1..MaxNumber, and the default

(***************************************************************************)
(* Python string functions used by main(), on TLA+ strings.                *)
(***************************************************************************)
Whitespace == {" ", "\t", "\n", "\r"}

ToLower == [A |-> "a", B |-> "b", C |-> "c", D |-> "d", E |-> "e", F |-> "f",
            G |-> "g", H |-> "h", I |-> "i", J |-> "j", K |-> "k", L |-> "l",
            M |-> "m", N |-> "n", O |-> "o", P |-> "p", Q |-> "q", R |-> "r",
            S |-> "s", T |-> "t", U |-> "u", V |-> "v", W |-> "w", X |-> "x",
            Y |-> "y", Z |-> "z"]

LowerChar(c) == IF c \in DOMAIN ToLower THEN ToLower[c] ELSE c

RECURSIVE lower(_)
\* str.lower()
lower(s) ==
    IF Len(s) = 0 THEN ""
    ELSE IF Len(s) = 1 THEN LowerChar(s)
    ELSE LET h == Len(s) \div 2
         IN  lower(SubSeq(s, 1, h)) \o lower(SubSeq(s, h + 1, Len(s)))

\* sub in s
Contains(s, sub) ==
    \E i \in 1..(Len(s) - Len(sub) + 1) : SubSeq(s, i, i + Len(sub) - 1) = sub

\* s.startswith(prefix)
startswith(s, prefix) ==
    Len(s) >= Len(prefix) /\ SubSeq(s, 1, Len(prefix)) = prefix

\* the pieces of s between the characters of the set seps; empty pieces are
\* kept iff keepEmpty, except that no piece follows a final separator
Pieces(s, seps, keepEmpty) ==
    LET n == Len(s)
        IsSep(i) == i = 0 \/ i = n + 1 \/ SubSeq(s, i, i) \in seps
        starts == { i \in 1..(n + 1) :
                      /\ IsSep(i - 1)
                      /\ IF keepEmpty THEN i <= n ELSE ~IsSep(i) }
        EndOf(i) == CHOOSE e \in (i - 1)..n :
                      IsSep(e + 1) /\ \A j \in i..e : ~IsSep(j)
        Nth(k) == CHOOSE i \in starts :
                      Cardinality({ j \in starts : j <= i }) = k
    IN  [ k \in 1..Cardinality(starts) |-> SubSeq(s, Nth(k), EndOf(Nth(k))) ]

\* str.split(): the whitespace-separated, non-empty tokens
split(s) == Pieces(s, Whitespace, FALSE)

\* str.splitlines()
splitlines(s) == Pieces(s, {"\n"}, TRUE)

RECURSIVE lstrip(_)
lstrip(s) == IF s # "" /\ Head(s) \in Whitespace THEN lstrip(Tail(s)) ELSE s

RECURSIVE rstrip(_)
rstrip(s) ==
    IF s # "" /\ SubSeq(s, Len(s), Len(s)) \in Whitespace
    THEN rstrip(SubSeq(s, 1, Len(s) - 1)) ELSE s

\* str.strip()
strip(s) == rstrip(lstrip(s))

\* list.index(x): the 0-based position of the first x, or -1 for ValueError
index(parts, x) ==
    IF \E i \in 1..Len(parts) : parts[i] = x
    THEN (CHOOSE i \in 1..Len(parts) :
              parts[i] = x /\ \A j \in 1..(i - 1) : parts[j] # x) - 1
    ELSE -1

\* x in list
InList(x, list) == \E i \in 1..Len(list) : list[i] = x

\* list[i] with a 0-based, possibly negative, in-range index
PyIndex(list, i) == IF i < 0 THEN list[Len(list) + i + 1] ELSE list[i + 1]

\* list[:k]
PySlice(list, k) ==
    LET n == Len(list)
        stop == IF k < 0 THEN (IF n + k < 0 THEN 0 ELSE n + k)
                ELSE (IF k > n THEN n ELSE k)
    IN  SubSeq(list, 1, stop)

Range(f) == { f[x] : x \in DOMAIN f }

min(a, b) == IF a <= b THEN a ELSE b

Digits == {"0", "1", "2", "3", "4", "5", "6", "7", "8", "9"}

DigitValue == ("0" :> 0) @@ ("1" :> 1) @@ ("2" :> 2) @@ ("3" :> 3) @@ ("4" :> 4)
              @@ ("5" :> 5) @@ ("6" :> 6) @@ ("7" :> 7) @@ ("8" :> 8) @@ ("9" :> 9)

\* re.match(r'^\d+$', s)
MatchesDigits(s) ==
    Len(s) >= 1 /\ \A i \in 1..Len(s) : SubSeq(s, i, i) \in Digits

RECURSIVE IntAcc(_, _)
IntAcc(s, acc) ==
    IF s = "" THEN acc ELSE IntAcc(Tail(s), 10 * acc + DigitValue[Head(s)])

\* int(s), for s made of decimal digits
int(s) == IntAcc(s, 0)

(***************************************************************************)
(* Terminal colour detection, main.py:13-51.                               *)
(***************************************************************************)
Environs ==
    [FORCE_COLOR : {"", "1", "TRUE", "0"}, NO_COLOR : {"", "1"},
     isatty : BOOLEAN, platform : {"Linux", "Windows"},
     WT_SESSION : {"", "1"}, TERM : {"", "xterm"}, ANSICON : BOOLEAN]

\* supports_color without the NO_COLOR test
supports_colorIgnoringNoColor(env) ==
    IF lower(env.FORCE_COLOR) \in {"1", "true", "yes", "on"} THEN TRUE
    ELSE IF ~env.isatty THEN FALSE
    ELSE IF env.platform = "Windows"
         THEN env.WT_SESSION # "" \/ env.TERM # "" \/ env.ANSICON
    ELSE TRUE

\* main.py:13-38
supports_color(env) ==
    IF lower(env.FORCE_COLOR) \in {"1", "true", "yes", "on"} THEN TRUE
    ELSE IF env.NO_COLOR # "" THEN FALSE
    ELSE IF ~env.isatty THEN FALSE
    ELSE IF env.platform = "Windows"
         THEN env.WT_SESSION # "" \/ env.TERM # "" \/ env.ANSICON
    ELSE TRUE

AnsiColors == [RED |-> "\\033[0;31m", GREEN |-> "\\033[0;32m",
               BLUE |-> "\\033[0;34m", NC |-> "\\033[0m"]

NoColors == [RED |-> "", GREEN |-> "", BLUE |-> "", NC |-> ""]

\* the module-level assignment of RED, GREEN, BLUE, NC
ModuleColors(env) == IF supports_color(env) THEN AnsiColors ELSE NoColors

\* the manual override at the top of main()
OverrideColors(c, a) ==
    IF a.no_color THEN NoColors
    ELSE IF a.force_color THEN AnsiColors
    ELSE c

(***************************************************************************)
(* What the environment can answer.                                        *)
(***************************************************************************)
\* -n/--number is type=int: argparse accepts every integer
DefaultNumber == 5

Numbers == ((0 - 1)..MaxNumber) \cup {DefaultNumber}

Args == [number : Numbers, select : BOOLEAN,
         no_color : BOOLEAN, force_color : BOOLEAN]

\* exit statuses of an external command
ReturnCodes == {0, 1, 128}

\* stdout of `git symbolic-ref --short HEAD` on an attached head
SymbolicRefOutputs == {"main\n", "b4\n"}

\* lines `git reflog` can print
LineVocabulary ==
    { "1a2b3c4 HEAD@{0}: checkout: moving from main to dev",
      "2b3c4d5 HEAD@{1}: checkout: moving from dev to main",
      "3c4d5e6 HEAD@{2}: commit: commit on dev",
      "4d5e6f7 HEAD@{3}: checkout: moving from {1a2b3c4} to main",
      "5e6f7a8 HEAD@{4}: Checkout: Moving From main to dev",
      "6f7a8b9 HEAD@{5}: checkout: moving from" }

\* "\n".join(seq) + "\n"
RECURSIVE JoinLines(_)
JoinLines(seq) ==
    IF seq = <<>> THEN "" ELSE Head(seq) \o "\n" \o JoinLines(Tail(seq))

\* the reflog of the visit sequence main, dev, b1, dev, b2, b1, b3, dev, b4
\* (test_branch_order_and_format), newest first
ScenarioReflog ==
    JoinLines(<< "b4b4b4b HEAD@{0}: checkout: moving from dev to b4",
                 "dededed HEAD@{1}: checkout: moving from b3 to dev",
                 "b3b3b3b HEAD@{2}: checkout: moving from b1 to b3",
                 "b1b1b1b HEAD@{3}: checkout: moving from b2 to b1",
                 "b2b2b2b HEAD@{4}: checkout: moving from dev to b2",
                 "dededed HEAD@{5}: checkout: moving from b1 to dev",
                 "b1b1b1b HEAD@{6}: checkout: moving from dev to b1",
                 "dededed HEAD@{7}: checkout: moving from main to dev" >>)

\* stdout of `git reflog`
ReflogOutputs ==
    { JoinLines(seq) :
        seq \in UNION { [1..k -> LineVocabulary] : k \in 0..MaxLines } }
    \cup {ScenarioReflog}

\* what input() can return
Inputs == {"", "abc", "0", "1", "2", "02", "999"}

\* stderr of a failed `git checkout`
CheckoutStderr == "error: pathspec did not match any file(s) known to git\n"

(***************************************************************************)
(* Output and exit.                                                        *)
(***************************************************************************)
\* print(text, file=stream)
Printed(o, stream, text) == Append(o, [stream |-> stream, text |-> text])

EXIT_OK == 0
EXIT_ERROR == 1

\* the status each exit of main() passes to sys.exit()
ExitCodeOf(kind) ==
    CASE kind \in {"Success", "NoCommits"} -> EXIT_OK
      [] kind = "Interrupted" -> EXIT_ERROR
      [] OTHER -> EXIT_ERROR

\* sys.exit(): the process ends, nothing else of main() runs
Exit(kind) ==
    /\ pc' = "exited"
    /\ outcome' = kind
    /\ exit_code' = ExitCodeOf(kind)

\* print_error(message): one print to stderr after the output o, then
\* sys.exit(1)
print_error(o, kind, message) ==
    /\ out' = Printed(o, "stderr",
                      colors.RED \o "Error: " \o message \o colors.NC)
    /\ Exit(kind)

\* str(e) of the CalledProcessError raised by subprocess.run(check=True)
RECURSIVE JoinArgv(_)
JoinArgv(argv) ==
    IF Len(argv) = 1 THEN "'" \o argv[1] \o "'"
    ELSE "'" \o Head(argv) \o "', " \o JoinArgv(Tail(argv))

CalledProcessErrorText(argv, rc) ==
    "Command '[" \o JoinArgv(argv) \o "]' returned non-zero exit status "
    \o ToString(rc) \o "."

\* run_command(cmd, check=True) on a command that returns rc # 0
CommandFailed(argv, rc) ==
    /\ failed_cmd' = argv
    /\ print_error(out, "GenericCommandFailure",
                   "Command failed: " \o CalledProcessErrorText(argv, rc))

(***************************************************************************)
(* The history extractor, main.py:137-156.                                 *)
(***************************************************************************)
Marker == "checkout: moving from"

\* main.py:140
IsCheckoutLine(line) == Contains(lower(line), Marker)

\* main.py:142-146: <<the token after the first "from">>, or <<>> when there
\* is no "from" (ValueError) or nothing follows it
FromToken(line) ==
    LET parts == split(line)
        from_index == index(parts, "from")
    IN  IF from_index >= 0 /\ from_index + 1 < Len(parts)
        THEN <<PyIndex(parts, from_index + 1)>>
        ELSE <<>>

\* Skipped without the comparison with the current branch
SkippedIgnoringCurrent(branch, current) ==
    branch = "" \/ startswith(branch, "{")

\* Skipped without the test for a leading '{'
SkippedIgnoringBrace(branch, current) ==
    branch = "" \/ branch = current

\* main.py:149
Skipped(branch, current) ==
    branch = "" \/ branch = current \/ startswith(branch, "{")

\* AddBranch without the membership test
AddBranchAlways(bs, branch) == Append(bs, branch)

\* main.py:153-154
AddBranch(bs, branch) == IF InList(branch, bs) THEN bs ELSE Append(bs, branch)

\* reflog_output.splitlines() of the possible outputs, evaluated once
ReflogLines == [ t \in ReflogOutputs |-> splitlines(t) ]

\* every line a reflog of ReflogOutputs can hold
PossibleLines == UNION { Range(ReflogLines[t]) : t \in ReflogOutputs }

\* IsCheckoutLine and FromToken of the possible lines, evaluated once
LineFacts ==
    [ l \in PossibleLines |->
        [is_checkout |-> IsCheckoutLine(l), from_token |-> FromToken(l)] ]

\* one iteration of the loop of main.py:138-156
ProcessLine(line, current, bs) ==
    IF ~LineFacts[line].is_checkout THEN bs
    ELSE LET tok == LineFacts[line].from_token
         IN  IF tok = <<>> THEN bs
             ELSE IF Skipped(tok[1], current) THEN bs
             ELSE AddBranch(bs, tok[1])

(***************************************************************************)
(* The presenter and selector, main.py:158-192.                            *)
(***************************************************************************)
\* Header announcing the number of branches displayed
HeaderShowingLimit(c, number) ==
    c.BLUE \o "Last " \o ToString(min(number, Len(branches)))
    \o " branches:" \o c.NC

\* main.py:161 and 168
Header(c, number) ==
    c.BLUE \o "Last " \o ToString(number) \o " branches:" \o c.NC

\* main.py:170
Entry(i, branch) == ToString(i) \o ") " \o branch

RECURSIVE PrintEntries(_, _, _)
\* main.py:169-170: enumerate(branches, 1) from position i on
PrintEntries(o, bs, i) ==
    IF i > Len(bs) THEN o
    ELSE PrintEntries(Printed(o, "stdout", Entry(i, bs[i])), bs, i + 1)

\* main.py:164
BranchLimit(number, total) == min(number, total)

\* main.py:165
Truncate(bs, limit) == PySlice(bs, limit)

\* main.py:175
PromptText(c, limit) ==
    "\n" \o c.GREEN \o "Enter branch number to checkout (1-"
    \o ToString(limit) \o "):" \o c.NC

\* main.py:178
InvalidSelection(s, limit) ==
    ~MatchesDigits(s) \/ int(s) < 1 \/ int(s) > limit

\* SelectedBranch with the index off by one
SelectedBranchOffByOne(bs, s) == PyIndex(bs, int(s) - 2)

\* main.py:181
SelectedBranch(bs, s) == PyIndex(bs, int(s) - 1)

(***************************************************************************)
(* The steps of main().                                                    *)
(***************************************************************************)
GitVersion == <<"git", "--version">>
GitInsideWorkTree == <<"git", "rev-parse", "--is-inside-work-tree">>
GitVerifyHead == <<"git", "rev-parse", "--verify", "HEAD">>
GitSymbolicRef == <<"git", "symbolic-ref", "--short", "HEAD">>
GitShortHead == <<"git", "rev-parse", "--short", "HEAD">>
GitReflog == <<"git", "reflog">>
GitCheckout(branch) == <<"git", "checkout", branch>>

Init ==
    /\ pc = "start"
    /\ \E env \in Environs : colors = ModuleColors(env)
    /\ args = [number |-> DefaultNumber, select |-> FALSE,
               no_color |-> FALSE, force_color |-> FALSE]
    /\ current_branch = ""
    /\ lines = <<>>
    /\ idx = 0
    /\ branches = <<>>
    /\ total_branches = 0
    /\ branch_limit = 0
    /\ branch_num = ""
    /\ out = <<>>
    /\ cmds = <<>>
    /\ failed_cmd = <<>>
    /\ outcome = "Running"
    /\ exit_code = 0 - 1

\* main.py:101-111
ParseArguments ==
    /\ pc = "start"
    /\ \E a \in Args :
        /\ args' = a
        /\ colors' = OverrideColors(colors, a)
    /\ pc' = "check_git"
    /\ UNCHANGED <<current_branch, lines, idx, branches, total_branches,
                   branch_limit, branch_num, out, cmds, failed_cmd, outcome,
                   exit_code>>

\* main.py:113-117
CheckGitInstalled ==
    /\ pc = "check_git"
    /\ cmds' = Append(cmds, GitVersion)
    /\ \/ \* FileNotFoundError: there is no git executable
          /\ failed_cmd' = GitVersion
          /\ print_error(out, "ToolMissing",
                         "git command not found. Please install git first.")
       \/ \E rc \in ReturnCodes :
            IF rc # 0 THEN CommandFailed(GitVersion, rc)
            ELSE /\ pc' = "check_repo"
                 /\ UNCHANGED <<out, failed_cmd, outcome, exit_code>>
    /\ UNCHANGED <<colors, args, current_branch, lines, idx, branches,
                   total_branches, branch_limit, branch_num>>

\* main.py:119-121
CheckRepository ==
    /\ pc = "check_repo"
    /\ cmds' = Append(cmds, GitInsideWorkTree)
    /\ \E rc \in ReturnCodes :
         IF rc # 0
         THEN /\ failed_cmd' = GitInsideWorkTree
              /\ print_error(out, "NotARepository",
                    "Not a git repository. Please run this command from within a git repository.")
         ELSE /\ pc' = "check_commits"
              /\ UNCHANGED <<out, failed_cmd, outcome, exit_code>>
    /\ UNCHANGED <<colors, args, current_branch, lines, idx, branches,
                   total_branches, branch_limit, branch_num>>

\* main.py:123-126
CheckCommits ==
    /\ pc = "check_commits"
    /\ cmds' = Append(cmds, GitVerifyHead)
    /\ \E rc \in ReturnCodes :
         IF rc # 0
         THEN /\ failed_cmd' = GitVerifyHead
              /\ out' = Printed(out, "stdout",
                    colors.BLUE
                    \o "No branch history found - repository has no commits yet"
                    \o colors.NC)
              /\ Exit("NoCommits")
         ELSE /\ pc' = "resolve"
              /\ UNCHANGED <<out, failed_cmd, outcome, exit_code>>
    /\ UNCHANGED <<colors, args, current_branch, lines, idx, branches,
                   total_branches, branch_limit, branch_num>>

\* main.py:128-132.  run_command is called with check=True, so a failing
\* symbolic-ref is handled inside run_command (main.py:72-76): it prints the
\* error and exits; CalledProcessError never reaches the except of main.py:131.
GetCurrentBranch ==
    /\ pc = "resolve"
    /\ cmds' = Append(cmds, GitSymbolicRef)
    /\ \E rc \in ReturnCodes :
         IF rc # 0
         THEN /\ CommandFailed(GitSymbolicRef, rc)
              /\ UNCHANGED current_branch
         ELSE /\ \E stdout \in SymbolicRefOutputs :
                    current_branch' = strip(stdout)
              /\ pc' = "reflog"
              /\ UNCHANGED <<out, failed_cmd, outcome, exit_code>>
    /\ UNCHANGED <<colors, args, lines, idx, branches, total_branches,
                   branch_limit, branch_num>>

\* main.py:135-138
ReadReflog ==
    /\ pc = "reflog"
    /\ cmds' = Append(cmds, GitReflog)
    /\ \E rc \in ReturnCodes :
         IF rc # 0
         THEN /\ CommandFailed(GitReflog, rc)
              /\ UNCHANGED <<lines, idx>>
         ELSE /\ \E reflog_output \in ReflogOutputs :
                    lines' = ReflogLines[reflog_output]
              /\ idx' = 1
              /\ pc' = "scan"
              /\ UNCHANGED <<out, failed_cmd, outcome, exit_code>>
    /\ UNCHANGED <<colors, args, current_branch, branches, total_branches,
                   branch_limit, branch_num>>

\* main.py:138-156, one line of the reflog
ScanLine ==
    /\ pc = "scan"
    /\ idx <= Len(lines)
    /\ branches' = ProcessLine(lines[idx], current_branch, branches)
    /\ idx' = idx + 1
    /\ UNCHANGED <<pc, colors, args, current_branch, lines, total_branches,
                   branch_limit, branch_num, out, cmds, failed_cmd, outcome,
                   exit_code>>

\* main.py:158-173
Present ==
    /\ pc = "scan"
    /\ idx > Len(lines)
    /\ total_branches' = Len(branches)
    /\ IF Len(branches) = 0
       THEN /\ out' = Printed(out, "stdout", Header(colors, args.number))
            /\ Exit("Success")
            /\ UNCHANGED <<branches, branch_limit>>
       ELSE /\ branch_limit' = BranchLimit(args.number, Len(branches))
            /\ branches' = Truncate(branches, branch_limit')
            /\ out' = PrintEntries(
                        Printed(out, "stdout", Header(colors, args.number)),
                        branches', 1)
            /\ IF args.select
               THEN /\ pc' = "select"
                    /\ UNCHANGED <<outcome, exit_code>>
               ELSE Exit("Success")
    /\ UNCHANGED <<colors, args, current_branch, lines, idx, branch_num,
                   cmds, failed_cmd>>

\* main.py:174-182: the prompt is answered with a line of input
ReadSelection ==
    /\ pc = "select"
    /\ \E s \in Inputs :
        /\ branch_num' = s
        /\ LET prompted == Printed(out, "stdout",
                                   PromptText(colors, branch_limit))
           IN  IF InvalidSelection(s, branch_limit)
               THEN print_error(prompted, "InvalidSelection",
                                "Invalid selection: " \o s)
               ELSE /\ out' = Printed(prompted, "stdout",
                              "\nChecking out: " \o SelectedBranch(branches, s))
                    /\ pc' = "checkout"
                    /\ UNCHANGED <<outcome, exit_code>>
    /\ UNCHANGED <<colors, args, current_branch, lines, idx, branches,
                   total_branches, branch_limit, cmds, failed_cmd>>

\* main.py:174-176 and 190-192: KeyboardInterrupt while input() waits
InterruptPrompt ==
    /\ pc = "select"
    /\ out' = Printed(Printed(out, "stdout", PromptText(colors, branch_limit)),
                      "stdout", "\nOperation cancelled.")
    /\ Exit("Interrupted")
    /\ UNCHANGED <<colors, args, current_branch, lines, idx, branches,
                   total_branches, branch_limit, branch_num, cmds, failed_cmd>>

\* main.py:184-189
Checkout ==
    /\ pc = "checkout"
    /\ LET selected_branch == SelectedBranch(branches, branch_num)
       IN  /\ cmds' = Append(cmds, GitCheckout(selected_branch))
           /\ \E rc \in ReturnCodes :
                IF rc # 0
                THEN /\ failed_cmd' = GitCheckout(selected_branch)
                     /\ print_error(out, "CheckoutFailed",
                           "Failed to checkout branch:\n" \o CheckoutStderr)
                ELSE /\ out' = Printed(out, "stdout",
                           colors.GREEN \o "Successfully checked out "
                           \o selected_branch \o colors.NC)
                     /\ Exit("Success")
                     /\ UNCHANGED failed_cmd
    /\ UNCHANGED <<colors, args, current_branch, lines, idx, branches,
                   total_branches, branch_limit, branch_num>>

Next ==
    \/ ParseArguments
    \/ CheckGitInstalled
    \/ CheckRepository
    \/ CheckCommits
    \/ GetCurrentBranch
    \/ ReadReflog
    \/ ScanLine
    \/ Present
    \/ ReadSelection
    \/ InterruptPrompt
    \/ Checkout

Spec == Init /\ [][Next]_vars

(***************************************************************************)
(* Vocabulary of the properties.                                           *)
(***************************************************************************)
Exited == pc = "exited"

\* main() has parsed its arguments
Parsed == pc # "start"

IsCheckoutCmd(argv) == Len(argv) = 3 /\ argv[2] = "checkout"

CheckoutCmds == { i \in 1..Len(cmds) : IsCheckoutCmd(cmds[i]) }

IsHeaderText(t) == Contains(t, "Last ") /\ Contains(t, " branches:")

IsEntryText(t) == \E d \in Digits : startswith(t, d \o ") ")

IsPromptText(t) == Contains(t, "Enter branch number to checkout")

IsEntryRecord(r) == r.stream = "stdout" /\ IsEntryText(r.text)

\* the numbered entries printed so far, in order
PrintedEntries == SelectSeq(out, IsEntryRecord)

HeaderPrinted == \E i \in 1..Len(out) : IsHeaderText(out[i].text)

PromptPrinted == \E i \in 1..Len(out) : IsPromptText(out[i].text)

\* the prompt was answered with the line branch_num
PromptAnswered ==
    /\ PromptPrinted
    /\ pc \in {"checkout", "exited"}
    /\ outcome # "Interrupted"

\* the source token line k contributes to the history, as a sequence of
\* zero or one token
Survivor(k) ==
    LET f == LineFacts[lines[k]]
    IN  IF f.is_checkout /\ f.from_token # <<>>
           /\ ~Skipped(f.from_token[1], current_branch)
        THEN f.from_token ELSE <<>>

\* the lines whose source token is the current branch
CurrentBranchLines ==
    { k \in 1..Len(lines) :
        LineFacts[lines[k]].is_checkout
        /\ LineFacts[lines[k]].from_token = <<current_branch>> }

\* the first line whose surviving source token is b
FirstOccurrence(b) ==
    CHOOSE k \in 1..Len(lines) :
        /\ Survivor(k) = <<b>>
        /\ \A j \in 1..(k - 1) : Survivor(j) # <<b>>

\* the lines the loop has passed
Scanned == 1..(IF pc = "scan" THEN idx - 1 ELSE Len(lines))

RECURSIVE HistoryFrom(_, _)
\* the whole BranchHistory of the reflog, before truncation
HistoryFrom(k, bs) ==
    IF k > Len(lines) THEN bs
    ELSE HistoryFrom(k + 1, ProcessLine(lines[k], current_branch, bs))

BranchHistory == HistoryFrom(1, <<>>)

\* the categories of the exit-code table
Category(kind) ==
    CASE kind = "Success" -> "Success"
      [] kind = "ToolMissing" -> "Unavailable"
      [] kind = "NotARepository" -> "Usage"
      [] kind = "InvalidSelection" -> "Usage"
      [] kind = "NoCommits" -> "NoInput"
      [] kind = "CheckoutFailed" -> "TemporaryFailure"
      [] kind = "Interrupted" -> "Interrupted"

TableKinds == {"Success", "ToolMissing", "NotARepository", "InvalidSelection",
               "NoCommits", "CheckoutFailed", "Interrupted"}

(***************************************************************************)
(* C1.  Exclusion: the branch list never contains the current branch name, *)
(* however many checkout lines of the reflog name it as the source token.  *)
(***************************************************************************)
C1_Exclusion ==
    \A i \in 1..Len(branches) : branches[i] # current_branch

\* a finished listing of a reflog in which the current branch is the source
\* token of at least two checkout lines
C1_Witness ==
    /\ Exited /\ outcome = "Success"
    /\ Len(branches) >= 1
    /\ Cardinality(CurrentBranchLines) >= 2

(***************************************************************************)
(* C2.  Dedup and order: every branch that survives filtering is in the    *)
(* list exactly once; the entries are in the order of their first (topmost)*)
(* occurrence as a source token in the reflog, and stay in that order      *)
(* after the scan; the visit sequence main, dev, b1, dev, b2, b1, b3, dev, *)
(* b4 lists dev, b3, b1, b2, main when 5 are requested.                    *)
(***************************************************************************)
C2_DedupOrder ==
    /\ \A i, j \in 1..Len(branches) : i # j => branches[i] # branches[j]
    /\ \A i \in 1..Len(branches) :
          \E k \in Scanned : Survivor(k) = <<branches[i]>>
    /\ \A i, j \in 1..Len(branches) :
          i < j => FirstOccurrence(branches[i]) < FirstOccurrence(branches[j])
    /\ pc = "scan" =>
          \A k \in Scanned :
              Survivor(k) # <<>> => InList(Survivor(k)[1], branches)
    /\ (/\ pc \in {"select", "checkout", "exited"}
        /\ lines = ReflogLines[ScenarioReflog]
        /\ current_branch = "b4"
        /\ args.number = DefaultNumber)
       => branches = <<"dev", "b3", "b1", "b2", "main">>

\* the scenario reflog has been listed: dev and b1 are source tokens of
\* several lines each
C2_Witness ==
    /\ Exited /\ outcome = "Success"
    /\ lines = ReflogLines[ScenarioReflog]
    /\ current_branch = "b4"
    /\ args.number = DefaultNumber
    /\ Len(branches) = 5

(***************************************************************************)
(* C3.  Detached-head fallback: when the symbolic-name query fails, the    *)
(* short commit identifier is queried instead and the run goes on to read  *)
(* the reflog; it does not end with an error.                              *)
(***************************************************************************)
C3_DetachedFallback ==
    (Exited /\ failed_cmd = GitSymbolicRef)
    => /\ InList(GitShortHead, cmds)
       /\ InList(GitReflog, cmds)
       /\ outcome # "GenericCommandFailure"

(***************************************************************************)
(* C4.  No-commits early success: when the head-commit check fails, the    *)
(* only output is the no-history message on standard output, no reflog is  *)
(* read, no checkout is invoked, and the exit code differs from the exit   *)
(* code of a successful listing.                                           *)
(***************************************************************************)
C4_NoCommits ==
    (Exited /\ failed_cmd = GitVerifyHead)
    => /\ outcome = "NoCommits"
       /\ Len(out) = 1
       /\ out[1].stream = "stdout"
       /\ Contains(out[1].text,
                   "No branch history found - repository has no commits yet")
       /\ branches = <<>>
       /\ ~InList(GitReflog, cmds)
       /\ CheckoutCmds = {}
       /\ exit_code # ExitCodeOf("Success")

(***************************************************************************)
(* C5.  Exit-code taxonomy: outcomes of different categories (Success,     *)
(* Unavailable, Usage, No-input, Temporary failure, Interrupted) end with  *)
(* different exit codes.                                                   *)
(***************************************************************************)
C5_ExitCodeTaxonomy ==
    (Exited /\ outcome \in TableKinds)
    => \A kind \in TableKinds :
          Category(kind) # Category(outcome) => ExitCodeOf(kind) # exit_code

(***************************************************************************)
(* C6.  Invalid selection: an input line that is not all decimal digits,   *)
(* or is not a number in 1..displayed_count, is reported as an 'Invalid    *)
(* selection' error, ends with the exit code of usage errors (and of no    *)
(* other category), and checkout is never invoked.                         *)
(***************************************************************************)
C6_InvalidSelection ==
    (/\ PromptAnswered
     /\ \/ ~MatchesDigits(branch_num)
        \/ int(branch_num) \notin 1..Len(PrintedEntries))
    => /\ Exited /\ outcome = "InvalidSelection"
       /\ out[Len(out)].stream = "stderr"
       /\ Contains(out[Len(out)].text, "Invalid selection: " \o branch_num)
       /\ CheckoutCmds = {}
       /\ exit_code = ExitCodeOf("NotARepository")
       /\ \A kind \in TableKinds :
             Category(kind) # "Usage" => ExitCodeOf(kind) # exit_code

(***************************************************************************)
(* C7.  Interrupt: an interrupt while the prompt waits prints 'Operation   *)
(* cancelled.', invokes no checkout and exits with code 130.               *)
(***************************************************************************)
EXIT_SIGINT == 130

C7_Interrupt ==
    outcome = "Interrupted"
    => /\ Exited
       /\ Contains(out[Len(out)].text, "Operation cancelled.")
       /\ CheckoutCmds = {}
       /\ exit_code = EXIT_SIGINT

(***************************************************************************)
(* C8.  Truncation: once the presenter has printed, the number of numbered *)
(* entries equals min(n, len(BranchHistory)) and the entries are the first *)
(* that many entries of the history with ordinals 1, 2, ... (a negative    *)
(* minimum is read as no entry at all).                                    *)
(***************************************************************************)
C8_Truncation ==
    HeaderPrinted
    => LET m == min(args.number, Len(BranchHistory))
           shown == IF m < 0 THEN 0 ELSE m
       IN  /\ Len(PrintedEntries) = shown
           /\ \A i \in 1..Len(PrintedEntries) :
                 PrintedEntries[i].text = Entry(i, BranchHistory[i])

(***************************************************************************)
(* C9.  Non-positive count rejection: for a requested count n <= 0 no      *)
(* header, no entry and no prompt is printed.                              *)
(***************************************************************************)
C9_NonPositiveRejected ==
    (Parsed /\ args.number <= 0)
    => /\ ~HeaderPrinted
       /\ PrintedEntries = <<>>
       /\ ~PromptPrinted

(***************************************************************************)
(* C10.  Checkout discipline: checkout is invoked at most once, only in    *)
(* select mode with at least one branch displayed and an input that is a   *)
(* number k in 1..displayed_count; its argument is the k-th displayed      *)
(* branch; and no command is invoked after it.                             *)
(***************************************************************************)
C10_CheckoutDiscipline ==
    /\ Cardinality(CheckoutCmds) <= 1
    /\ \A i \in CheckoutCmds :
          /\ i = Len(cmds)
          /\ args.select
          /\ Len(PrintedEntries) >= 1
          /\ MatchesDigits(branch_num)
          /\ int(branch_num) \in 1..Len(PrintedEntries)
          /\ PrintedEntries[int(branch_num)].text
                = Entry(int(branch_num), cmds[i][3])

\* the second of several displayed branches was checked out
C10_Witness ==
    /\ Exited /\ outcome = "Success"
    /\ CheckoutCmds # {}
    /\ int(branch_num) = 2
    /\ Len(PrintedEntries) >= 2

(***************************************************************************)
(* C11.  Detached filter: no token beginning with '{', and no empty token, *)
(* is ever a member of the branch list, even when it is the source token   *)
(* of a checkout line.                                                     *)
(***************************************************************************)
C11_DetachedFilter ==
    \A i \in 1..Len(branches) :
        branches[i] # "" /\ ~startswith(branches[i], "{")

\* a finished listing of a reflog with a checkout line whose source token
\* begins with '{'
C11_Witness ==
    /\ Exited /\ outcome = "Success"
    /\ Len(branches) >= 1
    /\ \E k \in 1..Len(lines) :
          /\ LineFacts[lines[k]].is_checkout
          /\ LineFacts[lines[k]].from_token # <<>>
          /\ startswith(LineFacts[lines[k]].from_token[1], "{")

(***************************************************************************)
(* The colour inputs of a state.  The environment acts on a run only       *)
(* through the module-level colours, and these only as long as no colour   *)
(* flag overrides them: a state stands for every environment that gives    *)
(* its colours.                                                            *)
(***************************************************************************)
\* FORCE_COLOR holds one of the forcing values, in any letter case
ForcingEnvirons ==
    { env \in Environs :
        lower(env.FORCE_COLOR) \in {"1", "true", "yes", "on"} }

\* NO_COLOR is present
NoColorEnvirons == { env \in Environs : env.NO_COLOR # "" }

\* NO_COLOR is present and FORCE_COLOR does not force
NoColorUnforcedEnvirons == NoColorEnvirons \ ForcingEnvirons

\* the environments of a set that give each module-level colour set,
\* evaluated once
NoColorGiving ==
    [ c \in {AnsiColors, NoColors} |->
        { env \in NoColorEnvirons : ModuleColors(env) = c } ]

NoColorUnforcedGiving ==
    [ c \in {AnsiColors, NoColors} |->
        { env \in NoColorUnforcedEnvirons : ModuleColors(env) = c } ]

\* a colour flag has replaced the module-level colours
Overridden == Parsed /\ (args.no_color \/ args.force_color)

\* the environments with NO_COLOR in which the run can be in this state
ConsistentNoColor ==
    IF Overridden THEN NoColorEnvirons ELSE NoColorGiving[colors]

\* those of them in which FORCE_COLOR does not force
ConsistentNoColorUnforced ==
    IF Overridden THEN NoColorUnforcedEnvirons
    ELSE NoColorUnforcedGiving[colors]

HasEscape(t) == Contains(t, "\\033[")

NoEscapePrinted == \A i \in 1..Len(out) : ~HasEscape(out[i].text)

(***************************************************************************)
(* C12 as stated.  NO_COLOR: whenever NO_COLOR is non-empty, no ANSI       *)
(* escape sequence appears in the output, whatever FORCE_COLOR, the        *)
(* terminal and the platform are.                                          *)
(***************************************************************************)
C12_NoColorAlways ==
    ConsistentNoColor # {} => NoEscapePrinted

(***************************************************************************)
(* C12, amended.  Whenever NO_COLOR is non-empty, FORCE_COLOR is not one   *)
(* of 1, true, yes, on, and --force-color is not given without --no-color, *)
(* no ANSI escape sequence appears in the output, whatever the terminal    *)
(* and the platform are.                                                   *)
(***************************************************************************)
C12_NoColorUnlessForced ==
    (/\ ConsistentNoColorUnforced # {}
     /\ Parsed => (args.no_color \/ ~args.force_color))
    => NoEscapePrinted

\* a finished listing without colour flags, in an interactive terminal with
\* NO_COLOR set
C12_Witness ==
    /\ Exited /\ outcome = "Success"
    /\ Len(PrintedEntries) >= 1
    /\ ~args.no_color /\ ~args.force_color
    /\ \E env \in ConsistentNoColorUnforced : env.isatty

(***************************************************************************)
(* Vocabulary of C13.                                                      *)
(***************************************************************************)
HeaderRecords == { i \in 1..Len(out) : IsHeaderText(out[i].text) }

\* the header of the requested count, as main.py:161 and 168 print it
RequestedHeader ==
    [stream |-> "stdout",
     text |-> colors.BLUE \o "Last " \o ToString(args.number)
              \o " branches:" \o colors.NC]

\* `git reflog` was run and did not fail
ReflogRead ==
    InList(GitReflog, cmds) /\ ~(Exited /\ failed_cmd = GitReflog)

\* the presenter has run
Presented == ReflogRead /\ pc \in {"select", "checkout", "exited"}

\* what header fidelity asks of the output
HeaderFidelity ==
    /\ LET headers == HeaderRecords
       IN  /\ Cardinality(headers) = 1
           /\ \A i \in headers : out[i] = RequestedHeader
    /\ BranchHistory = <<>> =>
          /\ out = <<RequestedHeader>>
          /\ Exited /\ outcome = "Success" /\ exit_code = EXIT_OK
          /\ ~PromptPrinted

(***************************************************************************)
(* C13 as stated, for the runs that have passed preflight, resolved the    *)
(* current branch and invoked `git reflog`: every such run prints exactly  *)
(* one header 'Last <n> branches:' with the requested n; with an empty     *)
(* history the header is the only output, the exit is Success and no       *)
(* prompt is shown.                                                        *)
(***************************************************************************)
C13_HeaderEveryRun ==
    (Exited /\ InList(GitReflog, cmds)) => HeaderFidelity

(***************************************************************************)
(* C13, amended.  Every run in which `git reflog` succeeds prints exactly  *)
(* one header 'Last <n> branches:' where n is the requested count, not the *)
(* number of entries displayed; with an empty history the header is the    *)
(* only output, the exit is Success and no prompt is shown even in select  *)
(* mode.  No header is printed before `git reflog` has succeeded.          *)
(***************************************************************************)
C13_HeaderFidelity ==
    IF Presented THEN HeaderFidelity ELSE ~HeaderPrinted

\* a finished listing that displays fewer entries than requested
C13_Witness ==
    /\ Exited /\ Presented
    /\ args.number = DefaultNumber
    /\ Len(PrintedEntries) = 1

(***************************************************************************)
(* Vocabulary of C14: the checkout-transition records as the claim reads   *)
(* them, with the marker phrase and its word 'from' in any letter case.    *)
(***************************************************************************)
\* <<the token after the first word 'from', in any letter case>>, or <<>>
FromTokenAnyCase(line) ==
    LET parts == split(line)
        lowered == [ i \in 1..Len(parts) |-> lower(parts[i]) ]
        from_index == index(lowered, "from")
    IN  IF from_index >= 0 /\ from_index + 1 < Len(parts)
        THEN <<PyIndex(parts, from_index + 1)>>
        ELSE <<>>

\* evaluated once for the possible lines
TransitionFacts ==
    [ l \in PossibleLines |->
        [marked |-> Contains(lower(l), Marker),
         source |-> FromTokenAnyCase(l)] ]

\* the token line k has to contribute, as a sequence of zero or one token
ExpectedFrom(k) ==
    LET f == TransitionFacts[lines[k]]
    IN  IF f.marked /\ f.source # <<>>
           /\ ~Skipped(f.source[1], current_branch)
        THEN f.source ELSE <<>>

(***************************************************************************)
(* C14.  Case-insensitive transition matching: while the reflog is         *)
(* scanned, the source token of every passed line that holds the marker    *)
(* phrase in any letter case is in the history (unless it is empty, the    *)
(* current branch or starts with '{'), and nothing else is: lines without  *)
(* the marker and marked lines with nothing after 'from' add nothing and   *)
(* raise no error.                                                         *)
(***************************************************************************)
C14_CaseInsensitiveMatching ==
    pc = "scan"
    => /\ outcome = "Running"
       /\ \A k \in Scanned :
             ExpectedFrom(k) # <<>> => InList(ExpectedFrom(k)[1], branches)
       /\ \A i \in 1..Len(branches) :
             \E k \in Scanned : ExpectedFrom(k) = <<branches[i]>>

(***************************************************************************)
(* Vocabulary of C15.                                                      *)
(***************************************************************************)
\* the error outcomes that fail fast: every error kind except NoCommits
FailFastKinds ==
    {"ToolMissing", "NotARepository", "InvalidSelection", "CheckoutFailed",
     "Interrupted", "GenericCommandFailure"}

\* the positions of the records printed on the error stream
StderrRecords == { i \in 1..Len(out) : out[i].stream = "stderr" }

\* a printed record that is one line of text
OneLine(rec) == ~Contains(rec.text, "\n")

\* the run ended by a diagnostic: nothing is printed after it
DiagnosticLast == Len(out) >= 1 /\ StderrRecords = {Len(out)}

\* a failed command is the last command of the run
FailedCmdLast == failed_cmd # <<>> => cmds[Len(cmds)] = failed_cmd

(***************************************************************************)
(* C15.  Fail-fast single-line diagnostics: a run that ends in an error    *)
(* outcome other than NoCommits has printed exactly one record on the      *)
(* error stream, that record is one line and is the last output, and no    *)
(* command follows the failure; a failed checkout reports the stderr of    *)
(* `git checkout` and never prints 'Successfully checked out'.             *)
(***************************************************************************)
C15_SingleLineDiagnostics ==
    (Exited /\ outcome \in FailFastKinds)
    => /\ DiagnosticLast
       /\ OneLine(out[Len(out)])
       /\ FailedCmdLast
       /\ outcome = "CheckoutFailed"
          => /\ Contains(out[Len(out)].text, CheckoutStderr)
             /\ \A i \in 1..Len(out) :
                   ~Contains(out[i].text, "Successfully checked out")

====
